---------------------------- MODULE Spec2Model ----------------------------
(***************************************************************************)
(* A model of splitter.py: the segmentation pipeline (extract_toc,         *)
(* find_chapter_occurrences, merge_nearby_occurrences, filter_occurrences, *)
(* split_book_into_chapters) and the per-chapter analysis loop of main     *)
(* with analyze_chapter's retry policy.                                    *)
(*                                                                         *)
(* Text is the sequence of its characters, a character is its Unicode      *)
(* code point ("Intro" is <<73, 110, 116, 114, 111>>); a tuple (title,     *)
(* line) of the program is the 2-tuple <<title, line>>; a dict is the      *)
(* sequence of its <<key, value>> items in insertion order.  The character *)
(* tables are those of CPython 3.11 (Unicode 14.0).                        *)
(***************************************************************************)
EXTENDS Integers, Sequences, FiniteSets, TLC

VARIABLES
    pc,                    \* position in main, or in the function under test
    book_title,            \* the name of the book file without its extension
    book_content,          \* the text of the book
    temp_dir,              \* the directory tempfile.mkdtemp() made
    chapters,              \* extract_toc's result
    occurrences,           \* find_chapter_occurrences' result
    max_gap,               \* merge_nearby_occurrences' window
    min_gap,               \* filter_occurrences' minimum gap
    merged_occurrences,    \* merge_nearby_occurrences' result
    remerged_occurrences,  \* the merge pass applied to its own result
    filtered_occurrences,  \* filter_occurrences' result: the chapter starts
    chapter_content,       \* split_book_into_chapters' dict
    calls,                 \* the functions of the pipeline invoked so far
    i,                     \* main's loop index into chapter_content.items()
    attempt,               \* analyze_chapter's loop variable
    requests,              \* completion() calls made by the running analyze_chapter
    waits,                 \* time.sleep() arguments of the running analyze_chapter
    analysis,              \* the value analyze_chapter returned last
    scratchpad,            \* main's scratchpad
    analysis_file,         \* what main wrote to the review file
    questions,             \* questions asked about the current chapter
    outcome,               \* how the run ended
    response_text,         \* extract_toc's response_text
    chapter_files,         \* the chapter files written to temp_dir
    analysed               \* log of the analyze_chapter calls that returned

vars == <<pc, book_title, book_content, temp_dir, chapters, occurrences,
          max_gap, min_gap, merged_occurrences, remerged_occurrences,
          filtered_occurrences, chapter_content, calls, i, attempt, requests,
          waits, analysis, scratchpad, analysis_file, questions, outcome,
          response_text, chapter_files, analysed>>

---------------------------------------------------------------------------
(* Bounds of the model *)

\* longest occurrence list given to the reconciliation passes
MaxOcc == 3
\* largest line number in those lists
MaxLine == 4
\* largest gap parameter tried
MaxGap == 2
\* questions the user asks about one chapter
MaxQuestions == 1
\* characters of the longer text the service generates, after its heading
LongTextLen == 1000

(* Program constants *)

DefaultMaxGap == 10
DefaultMinGap == 20
max_retries == 5
initial_wait == 1

---------------------------------------------------------------------------
(* Text primitives of Python used by the program *)

Min(a, b) == IF a < b THEN a ELSE b
Max(a, b) == IF a > b THEN a ELSE b

\* the characters str.strip() removes and \s matches (str.isspace)
Whitespace ==
    {9, 10, 11, 12, 13, 28, 29, 30, 31, 32, 133, 160, 5760, 8232, 8233, 8239,
     8287, 12288} \cup 8192..8202

\* the characters \d matches: the decimal digits (category Nd), in ranges
DigitRanges ==
    {
     <<48, 57>>, <<1632, 1641>>, <<1776, 1785>>, <<1984, 1993>>,
     <<2406, 2415>>, <<2534, 2543>>, <<2662, 2671>>, <<2790, 2799>>,
     <<2918, 2927>>, <<3046, 3055>>, <<3174, 3183>>, <<3302, 3311>>,
     <<3430, 3439>>, <<3558, 3567>>, <<3664, 3673>>, <<3792, 3801>>,
     <<3872, 3881>>, <<4160, 4169>>, <<4240, 4249>>, <<6112, 6121>>,
     <<6160, 6169>>, <<6470, 6479>>, <<6608, 6617>>, <<6784, 6793>>,
     <<6800, 6809>>, <<6992, 7001>>, <<7088, 7097>>, <<7232, 7241>>,
     <<7248, 7257>>, <<42528, 42537>>, <<43216, 43225>>, <<43264, 43273>>,
     <<43472, 43481>>, <<43504, 43513>>, <<43600, 43609>>,
     <<44016, 44025>>, <<65296, 65305>>, <<66720, 66729>>,
     <<68912, 68921>>, <<69734, 69743>>, <<69872, 69881>>,
     <<69942, 69951>>, <<70096, 70105>>, <<70384, 70393>>,
     <<70736, 70745>>, <<70864, 70873>>, <<71248, 71257>>,
     <<71360, 71369>>, <<71472, 71481>>, <<71904, 71913>>,
     <<72016, 72025>>, <<72784, 72793>>, <<73040, 73049>>,
     <<73120, 73129>>, <<92768, 92777>>, <<92864, 92873>>,
     <<93008, 93017>>, <<120782, 120831>>, <<123200, 123209>>,
     <<123632, 123641>>, <<125264, 125273>>, <<130032, 130041>>
    }

Digit == UNION { r[1]..r[2] : r \in DigitRanges }

\* the characters with a lower or upper case form other than themselves
\* (_sre.unicode_iscased), in ranges
CasedRanges ==
    {
     <<65, 90>>, <<97, 122>>, <<181, 181>>, <<192, 214>>, <<216, 246>>,
     <<248, 311>>, <<313, 396>>, <<398, 410>>, <<412, 425>>, <<428, 441>>,
     <<444, 445>>, <<447, 447>>, <<452, 544>>, <<546, 563>>, <<570, 596>>,
     <<598, 599>>, <<601, 601>>, <<603, 604>>, <<608, 609>>, <<611, 611>>,
     <<613, 614>>, <<616, 620>>, <<623, 623>>, <<625, 626>>, <<629, 629>>,
     <<637, 637>>, <<640, 640>>, <<642, 643>>, <<647, 652>>, <<658, 658>>,
     <<669, 670>>, <<837, 837>>, <<880, 883>>, <<886, 887>>, <<891, 893>>,
     <<895, 895>>, <<902, 902>>, <<904, 906>>, <<908, 908>>, <<910, 929>>,
     <<931, 977>>, <<981, 1013>>, <<1015, 1019>>, <<1021, 1153>>,
     <<1162, 1327>>, <<1329, 1366>>, <<1377, 1415>>, <<4256, 4293>>,
     <<4295, 4295>>, <<4301, 4301>>, <<4304, 4346>>, <<4349, 4351>>,
     <<5024, 5109>>, <<5112, 5117>>, <<7296, 7304>>, <<7312, 7354>>,
     <<7357, 7359>>, <<7545, 7545>>, <<7549, 7549>>, <<7566, 7566>>,
     <<7680, 7835>>, <<7838, 7838>>, <<7840, 7957>>, <<7960, 7965>>,
     <<7968, 8005>>, <<8008, 8013>>, <<8016, 8023>>, <<8025, 8025>>,
     <<8027, 8027>>, <<8029, 8029>>, <<8031, 8061>>, <<8064, 8116>>,
     <<8118, 8124>>, <<8126, 8126>>, <<8130, 8132>>, <<8134, 8140>>,
     <<8144, 8147>>, <<8150, 8155>>, <<8160, 8172>>, <<8178, 8180>>,
     <<8182, 8188>>, <<8486, 8486>>, <<8490, 8491>>, <<8498, 8498>>,
     <<8526, 8526>>, <<8544, 8575>>, <<8579, 8580>>, <<9398, 9449>>,
     <<11264, 11376>>, <<11378, 11379>>, <<11381, 11382>>,
     <<11390, 11491>>, <<11499, 11502>>, <<11506, 11507>>,
     <<11520, 11557>>, <<11559, 11559>>, <<11565, 11565>>,
     <<42560, 42605>>, <<42624, 42651>>, <<42786, 42799>>,
     <<42802, 42863>>, <<42873, 42887>>, <<42891, 42893>>,
     <<42896, 42900>>, <<42902, 42926>>, <<42928, 42954>>,
     <<42960, 42961>>, <<42966, 42969>>, <<42997, 42998>>,
     <<43859, 43859>>, <<43888, 43967>>, <<64256, 64262>>,
     <<64275, 64279>>, <<65313, 65338>>, <<65345, 65370>>,
     <<66560, 66639>>, <<66736, 66771>>, <<66776, 66811>>,
     <<66928, 66938>>, <<66940, 66954>>, <<66956, 66962>>,
     <<66964, 66965>>, <<66967, 66977>>, <<66979, 66993>>,
     <<66995, 67001>>, <<67003, 67004>>, <<68736, 68786>>,
     <<68800, 68850>>, <<71840, 71903>>, <<93760, 93823>>,
     <<125184, 125251>>
    }

iscased(c) == \E r \in CasedRanges : r[1] <= c /\ c <= r[2]

\* the lower case mapping (_sre.unicode_tolower) as runs <<first, last,
\* step, offset>>: first, first + step, ..., last map to themselves + offset
LowerRuns ==
    {
     <<65, 90, 1, 32>>, <<192, 214, 1, 32>>, <<216, 222, 1, 32>>,
     <<256, 302, 2, 1>>, <<304, 304, 1, -199>>, <<306, 310, 2, 1>>,
     <<313, 327, 2, 1>>, <<330, 374, 2, 1>>, <<376, 376, 1, -121>>,
     <<377, 381, 2, 1>>, <<385, 385, 1, 210>>, <<386, 388, 2, 1>>,
     <<390, 390, 1, 206>>, <<391, 391, 1, 1>>, <<393, 394, 1, 205>>,
     <<395, 395, 1, 1>>, <<398, 398, 1, 79>>, <<399, 399, 1, 202>>,
     <<400, 400, 1, 203>>, <<401, 401, 1, 1>>, <<403, 403, 1, 205>>,
     <<404, 404, 1, 207>>, <<406, 406, 1, 211>>, <<407, 407, 1, 209>>,
     <<408, 408, 1, 1>>, <<412, 412, 1, 211>>, <<413, 413, 1, 213>>,
     <<415, 415, 1, 214>>, <<416, 420, 2, 1>>, <<422, 422, 1, 218>>,
     <<423, 423, 1, 1>>, <<425, 425, 1, 218>>, <<428, 428, 1, 1>>,
     <<430, 430, 1, 218>>, <<431, 431, 1, 1>>, <<433, 434, 1, 217>>,
     <<435, 437, 2, 1>>, <<439, 439, 1, 219>>, <<440, 440, 1, 1>>,
     <<444, 444, 1, 1>>, <<452, 452, 1, 2>>, <<453, 453, 1, 1>>,
     <<455, 455, 1, 2>>, <<456, 456, 1, 1>>, <<458, 458, 1, 2>>,
     <<459, 475, 2, 1>>, <<478, 494, 2, 1>>, <<497, 497, 1, 2>>,
     <<498, 500, 2, 1>>, <<502, 502, 1, -97>>, <<503, 503, 1, -56>>,
     <<504, 542, 2, 1>>, <<544, 544, 1, -130>>, <<546, 562, 2, 1>>,
     <<570, 570, 1, 10795>>, <<571, 571, 1, 1>>, <<573, 573, 1, -163>>,
     <<574, 574, 1, 10792>>, <<577, 577, 1, 1>>, <<579, 579, 1, -195>>,
     <<580, 580, 1, 69>>, <<581, 581, 1, 71>>, <<582, 590, 2, 1>>,
     <<880, 882, 2, 1>>, <<886, 886, 1, 1>>, <<895, 895, 1, 116>>,
     <<902, 902, 1, 38>>, <<904, 906, 1, 37>>, <<908, 908, 1, 64>>,
     <<910, 911, 1, 63>>, <<913, 929, 1, 32>>, <<931, 939, 1, 32>>,
     <<975, 975, 1, 8>>, <<984, 1006, 2, 1>>, <<1012, 1012, 1, -60>>,
     <<1015, 1015, 1, 1>>, <<1017, 1017, 1, -7>>, <<1018, 1018, 1, 1>>,
     <<1021, 1023, 1, -130>>, <<1024, 1039, 1, 80>>, <<1040, 1071, 1, 32>>,
     <<1120, 1152, 2, 1>>, <<1162, 1214, 2, 1>>, <<1216, 1216, 1, 15>>,
     <<1217, 1229, 2, 1>>, <<1232, 1326, 2, 1>>, <<1329, 1366, 1, 48>>,
     <<4256, 4293, 1, 7264>>, <<4295, 4295, 1, 7264>>,
     <<4301, 4301, 1, 7264>>, <<5024, 5103, 1, 38864>>,
     <<5104, 5109, 1, 8>>, <<7312, 7354, 1, -3008>>,
     <<7357, 7359, 1, -3008>>, <<7680, 7828, 2, 1>>,
     <<7838, 7838, 1, -7615>>, <<7840, 7934, 2, 1>>, <<7944, 7951, 1, -8>>,
     <<7960, 7965, 1, -8>>, <<7976, 7983, 1, -8>>, <<7992, 7999, 1, -8>>,
     <<8008, 8013, 1, -8>>, <<8025, 8031, 2, -8>>, <<8040, 8047, 1, -8>>,
     <<8072, 8079, 1, -8>>, <<8088, 8095, 1, -8>>, <<8104, 8111, 1, -8>>,
     <<8120, 8121, 1, -8>>, <<8122, 8123, 1, -74>>, <<8124, 8124, 1, -9>>,
     <<8136, 8139, 1, -86>>, <<8140, 8140, 1, -9>>, <<8152, 8153, 1, -8>>,
     <<8154, 8155, 1, -100>>, <<8168, 8169, 1, -8>>,
     <<8170, 8171, 1, -112>>, <<8172, 8172, 1, -7>>,
     <<8184, 8185, 1, -128>>, <<8186, 8187, 1, -126>>,
     <<8188, 8188, 1, -9>>, <<8486, 8486, 1, -7517>>,
     <<8490, 8490, 1, -8383>>, <<8491, 8491, 1, -8262>>,
     <<8498, 8498, 1, 28>>, <<8544, 8559, 1, 16>>, <<8579, 8579, 1, 1>>,
     <<9398, 9423, 1, 26>>, <<11264, 11311, 1, 48>>,
     <<11360, 11360, 1, 1>>, <<11362, 11362, 1, -10743>>,
     <<11363, 11363, 1, -3814>>, <<11364, 11364, 1, -10727>>,
     <<11367, 11371, 2, 1>>, <<11373, 11373, 1, -10780>>,
     <<11374, 11374, 1, -10749>>, <<11375, 11375, 1, -10783>>,
     <<11376, 11376, 1, -10782>>, <<11378, 11378, 1, 1>>,
     <<11381, 11381, 1, 1>>, <<11390, 11391, 1, -10815>>,
     <<11392, 11490, 2, 1>>, <<11499, 11501, 2, 1>>,
     <<11506, 11506, 1, 1>>, <<42560, 42604, 2, 1>>,
     <<42624, 42650, 2, 1>>, <<42786, 42798, 2, 1>>,
     <<42802, 42862, 2, 1>>, <<42873, 42875, 2, 1>>,
     <<42877, 42877, 1, -35332>>, <<42878, 42886, 2, 1>>,
     <<42891, 42891, 1, 1>>, <<42893, 42893, 1, -42280>>,
     <<42896, 42898, 2, 1>>, <<42902, 42920, 2, 1>>,
     <<42922, 42922, 1, -42308>>, <<42923, 42923, 1, -42319>>,
     <<42924, 42924, 1, -42315>>, <<42925, 42925, 1, -42305>>,
     <<42926, 42926, 1, -42308>>, <<42928, 42928, 1, -42258>>,
     <<42929, 42929, 1, -42282>>, <<42930, 42930, 1, -42261>>,
     <<42931, 42931, 1, 928>>, <<42932, 42946, 2, 1>>,
     <<42948, 42948, 1, -48>>, <<42949, 42949, 1, -42307>>,
     <<42950, 42950, 1, -35384>>, <<42951, 42953, 2, 1>>,
     <<42960, 42960, 1, 1>>, <<42966, 42968, 2, 1>>,
     <<42997, 42997, 1, 1>>, <<65313, 65338, 1, 32>>,
     <<66560, 66599, 1, 40>>, <<66736, 66771, 1, 40>>,
     <<66928, 66938, 1, 39>>, <<66940, 66954, 1, 39>>,
     <<66956, 66962, 1, 39>>, <<66964, 66965, 1, 39>>,
     <<68736, 68786, 1, 64>>, <<71840, 71871, 1, 32>>,
     <<93760, 93791, 1, 32>>, <<125184, 125217, 1, 34>>
    }

\* case folding of re.IGNORECASE on one character
lower(c) ==
    IF \E r \in LowerRuns : r[1] <= c /\ c <= r[2] /\ (c - r[1]) % r[3] = 0
    THEN c + (CHOOSE r \in LowerRuns :
                  r[1] <= c /\ c <= r[2] /\ (c - r[1]) % r[3] = 0)[4]
    ELSE c

\* the pairs <<lower case character, another character that matches it>> of
\* re._casefix._EXTRA_CASES
ExtraCases ==
    {
     <<105, 305>>, <<115, 383>>, <<181, 956>>, <<305, 105>>, <<383, 115>>,
     <<837, 953>>, <<837, 8126>>, <<912, 8147>>, <<944, 8163>>,
     <<946, 976>>, <<949, 1013>>, <<952, 977>>, <<953, 837>>,
     <<953, 8126>>, <<954, 1008>>, <<956, 181>>, <<960, 982>>,
     <<961, 1009>>, <<962, 963>>, <<963, 962>>, <<966, 981>>, <<976, 946>>,
     <<977, 952>>, <<981, 966>>, <<982, 960>>, <<1008, 954>>,
     <<1009, 961>>, <<1013, 949>>, <<1074, 7296>>, <<1076, 7297>>,
     <<1086, 7298>>, <<1089, 7299>>, <<1090, 7300>>, <<1090, 7301>>,
     <<1098, 7302>>, <<1123, 7303>>, <<7296, 1074>>, <<7297, 1076>>,
     <<7298, 1086>>, <<7299, 1089>>, <<7300, 1090>>, <<7300, 7301>>,
     <<7301, 1090>>, <<7301, 7300>>, <<7302, 1098>>, <<7303, 1123>>,
     <<7304, 42571>>, <<7777, 7835>>, <<7835, 7777>>, <<8126, 837>>,
     <<8126, 953>>, <<8147, 912>>, <<8163, 944>>, <<42571, 7304>>,
     <<64261, 64262>>, <<64262, 64261>>
    }

\* a literal character p of a pattern compiled with re.IGNORECASE matches
\* the character t
char_match(p, t) ==
    IF iscased(p)
    THEN lower(t) = lower(p) \/ <<lower(p), lower(t)>> \in ExtraCases
    ELSE t = p

\* seq[a:b] for 0 <= a, 0 <= b
py_slice(seq, a, b) == SubSeq(seq, a + 1, Min(b, Len(seq)))

\* text.split("\n")
RECURSIVE str_split(_)
str_split(text) ==
    IF \E k \in 1..Len(text) : text[k] = 10
    THEN LET k == CHOOSE k \in 1..Len(text) :
                     text[k] = 10 /\ \A m \in 1..(k - 1) : text[m] # 10
         IN <<SubSeq(text, 1, k - 1)>> \o str_split(SubSeq(text, k + 1, Len(text)))
    ELSE <<text>>

\* "\n".join(lines)
RECURSIVE str_join(_)
str_join(lines) ==
    IF lines = <<>> THEN <<>>
    ELSE IF Len(lines) = 1 THEN lines[1]
    ELSE lines[1] \o <<10>> \o str_join(Tail(lines))

\* text.strip()
str_strip(text) ==
    IF \A k \in 1..Len(text) : text[k] \in Whitespace THEN <<>>
    ELSE SubSeq(text,
                CHOOSE k \in 1..Len(text) :
                    /\ text[k] \notin Whitespace
                    /\ \A m \in 1..(k - 1) : text[m] \in Whitespace,
                CHOOSE k \in 1..Len(text) :
                    /\ text[k] \notin Whitespace
                    /\ \A m \in (k + 1)..Len(text) : text[m] \in Whitespace)

\* str(n) for n >= 0
RECURSIVE str_int(_)
str_int(n) ==
    IF n < 10 THEN <<48 + n>>
    ELSE str_int(n \div 10) \o <<48 + (n % 10)>>

\* f"{n:04d}" for n >= 0
format_04d(n) ==
    LET d == str_int(n)
    IN [k \in 1..(Max(4, Len(d)) - Len(d)) |-> 48] \o d

---------------------------------------------------------------------------
(* extract_toc: the lines of the service's response, stripped, blank ones dropped *)

RECURSIVE strip_nonblank(_)
strip_nonblank(lines) ==
    IF lines = <<>> THEN <<>>
    ELSE (IF str_strip(Head(lines)) # <<>> THEN <<str_strip(Head(lines))>> ELSE <<>>)
         \o strip_nonblank(Tail(lines))

\* an extractor that strips the lines and keeps the blank ones
extract_toc_keeping_blank_lines(text) ==
    [k \in 1..Len(str_split(text)) |-> str_strip(str_split(text)[k])]

extract_toc(text) == strip_nonblank(str_split(text))

---------------------------------------------------------------------------
(* find_chapter_occurrences *)

\* how many characters of text, from index from on, lie in set S
run_length(text, from, S) ==
    LET ks == {k \in 0..(Len(text) - from + 1) :
                   \A m \in 0..(k - 1) : text[from + m] \in S}
    IN CHOOSE k \in ks : \A m \in ks : m <= k

\* re.escape(chapter) matches chapter literally, case-insensitively, at index from
literal_at(line, chapter, from) ==
    /\ from + Len(chapter) - 1 <= Len(line)
    /\ \A k \in 1..Len(chapter) : char_match(chapter[k], line[from + k - 1])

\* a pattern without the optional number: rf"^\s*{re.escape(chapter)}"
re_search_unnumbered(chapter, line) ==
    \E j \in 0..run_length(line, 1, Whitespace) : literal_at(line, chapter, 1 + j)

\* re.search(rf"^(\d+\.)?\s*{re.escape(chapter)}", line, re.IGNORECASE)
re_search(chapter, line) ==
    LET nd == run_length(line, 1, Digit)
        numbered == IF nd >= 1 /\ nd + 1 <= Len(line) /\ line[nd + 1] = 46
                    THEN {nd + 2} ELSE {}
    IN \E s \in {1} \cup numbered :
           \E j \in 0..run_length(line, s, Whitespace) :
               literal_at(line, chapter, s + j)

\* the inner loop: the titles that match line number n, in extraction order
RECURSIVE line_occurrences(_, _, _)
line_occurrences(line, n, titles) ==
    IF titles = <<>> THEN <<>>
    ELSE (IF re_search(Head(titles), line) THEN << <<Head(titles), n>> >> ELSE <<>>)
         \o line_occurrences(line, n, Tail(titles))

\* the outer loop, from line number n on
RECURSIVE scan_lines(_, _, _)
scan_lines(lines, n, titles) ==
    IF n > Len(lines) THEN <<>>
    ELSE line_occurrences(lines[n], n, titles) \o scan_lines(lines, n + 1, titles)

find_chapter_occurrences(content, titles) ==
    scan_lines(str_split(content), 1, titles)

---------------------------------------------------------------------------
(* merge_nearby_occurrences *)

\* the loop, with the list merged built so far
RECURSIVE merge_loop(_, _, _)
merge_loop(rest, gap, merged) ==
    IF rest = <<>> THEN merged
    ELSE LET chapter == Head(rest)[1]
             line_num == Head(rest)[2]
             keep == \/ merged = <<>>
                     \/ chapter # merged[Len(merged)][1]
                     \/ line_num - merged[Len(merged)][2] > gap
         IN merge_loop(Tail(rest), gap,
                       IF keep THEN Append(merged, <<chapter, line_num>>) ELSE merged)

\* a merge pass that compares with the previous element of its input
RECURSIVE merge_prev_loop(_, _, _, _)
merge_prev_loop(occ, gap, n, merged) ==
    IF n > Len(occ) THEN merged
    ELSE LET keep == \/ n = 1
                     \/ occ[n][1] # occ[n - 1][1]
                     \/ occ[n][2] - occ[n - 1][2] > gap
         IN merge_prev_loop(occ, gap, n + 1,
                            IF keep THEN Append(merged, occ[n]) ELSE merged)

merge_against_previous_input(occ, gap) == merge_prev_loop(occ, gap, 1, <<>>)

merge_nearby_occurrences(occ, gap) == merge_loop(occ, gap, <<>>)

---------------------------------------------------------------------------
(* filter_occurrences *)

\* the loop from index n on, with the list filtered built so far
RECURSIVE filter_loop(_, _, _, _)
filter_loop(occ, gap, n, filtered) ==
    IF n > Len(occ) THEN filtered
    ELSE LET keep == n = 1 \/ occ[n][2] - occ[n - 1][2] >= gap
         IN filter_loop(occ, gap, n + 1,
                        IF keep THEN Append(filtered, occ[n]) ELSE filtered)

\* a filter pass whose comparison is off by one
RECURSIVE filter_loose_loop(_, _, _, _)
filter_loose_loop(occ, gap, n, filtered) ==
    IF n > Len(occ) THEN filtered
    ELSE LET keep == n = 1 \/ occ[n][2] - occ[n - 1][2] >= gap - 1
         IN filter_loose_loop(occ, gap, n + 1,
                              IF keep THEN Append(filtered, occ[n]) ELSE filtered)

filter_off_by_one(occ, gap) == filter_loose_loop(occ, gap, 1, <<>>)

\* a filter pass that puts the occurrence it keeps in front
RECURSIVE filter_front_loop(_, _, _, _)
filter_front_loop(occ, gap, n, filtered) ==
    IF n > Len(occ) THEN filtered
    ELSE LET keep == n = 1 \/ occ[n][2] - occ[n - 1][2] >= gap
         IN filter_front_loop(occ, gap, n + 1,
                              IF keep THEN <<occ[n]>> \o filtered ELSE filtered)

filter_prepending(occ, gap) == filter_front_loop(occ, gap, 1, <<>>)

filter_occurrences(occ, gap) == filter_loop(occ, gap, 1, <<>>)

---------------------------------------------------------------------------
(* split_book_into_chapters *)

\* d[key] = value on a dict: a key already present keeps its place
dict_set(d, key, value) ==
    IF \E k \in 1..Len(d) : d[k][1] = key
    THEN [k \in 1..Len(d) |-> IF d[k][1] = key THEN <<key, value>> ELSE d[k]]
    ELSE Append(d, <<key, value>>)

dict_keys(d) == [k \in 1..Len(d) |-> d[k][1]]

\* "0000_Preface"
Preface == <<48, 48, 48, 48, 95, 80, 114, 101, 102, 97, 99, 101>>

\* f"{start_line:04d}_{chapter}"
chapter_key(chapter, start_line) == format_04d(start_line) \o <<95>> \o chapter

\* the slice end of the entry at index n
end_line(lines, chapter_starts, n) ==
    IF n - 1 < Len(chapter_starts) - 1 THEN chapter_starts[n + 1][2] ELSE Len(lines)

\* the loop over chapter_starts from index n on
RECURSIVE split_loop(_, _, _, _)
split_loop(lines, chapter_starts, n, d) ==
    IF n > Len(chapter_starts) THEN d
    ELSE LET chapter == chapter_starts[n][1]
             start_line == chapter_starts[n][2]
             content == str_strip(str_join(
                            py_slice(lines, start_line - 1,
                                     end_line(lines, chapter_starts, n))))
         IN split_loop(lines, chapter_starts, n + 1,
                       dict_set(d, chapter_key(chapter, start_line), content))

\* the result: the exception raised, if any, and the dict returned otherwise
split_book_into_chapters(content, chapter_starts) ==
    LET lines == str_split(content)
    IN IF chapter_starts = <<>>
       THEN [raised |-> "IndexError", value |-> <<>>]
       ELSE [raised |-> "none",
             value |-> split_loop(lines, chapter_starts, 1,
                 IF chapter_starts[1][2] > 1
                 THEN << <<Preface,
                           str_strip(str_join(
                               py_slice(lines, 0, chapter_starts[1][2] - 1)))>> >>
                 ELSE <<>>)]

---------------------------------------------------------------------------
(* analyze_chapter and answer_question *)

\* a text of n characters "x"
text_of_length(n) == [k \in 1..n |-> 120]

\* "Summary."
Summary == <<83, 117, 109, 109, 97, 114, 121, 46>>

\* texts the service generates: a short one, and one longer than the tail
\* main keeps as scratchpad
ServiceTexts == { Summary, Summary \o text_of_length(LongTextLen) }

\* str(e) of an exception of the service: "service down"
ExceptionText == <<115, 101, 114, 118, 105, 99, 101, 32, 100, 111, 119, 110>>

\* f"Error: Unable to analyze chapter due to rate limiting. Please try again
\* later.\n\nChapter: {chapter_name}"
RateLimitPlaceholder(chapter_name) ==
    <<69, 114, 114, 111, 114, 58, 32, 85, 110, 97, 98, 108, 101, 32, 116,
       111, 32, 97, 110, 97, 108, 121, 122, 101, 32, 99, 104, 97, 112, 116,
       101, 114, 32, 100, 117, 101, 32, 116, 111, 32, 114, 97, 116, 101,
       32, 108, 105, 109, 105, 116, 105, 110, 103, 46, 32, 80, 108, 101,
       97, 115, 101, 32, 116, 114, 121, 32, 97, 103, 97, 105, 110, 32, 108,
       97, 116, 101, 114, 46, 10, 10, 67, 104, 97, 112, 116, 101, 114, 58,
       32>>
    \o chapter_name

\* f"Error: An unexpected error occurred while analyzing the
\* chapter.\n\nChapter: {chapter_name}\nError: {str(e)}"
UnexpectedPlaceholder(chapter_name, e) ==
    <<69, 114, 114, 111, 114, 58, 32, 65, 110, 32, 117, 110, 101, 120,
       112, 101, 99, 116, 101, 100, 32, 101, 114, 114, 111, 114, 32, 111,
       99, 99, 117, 114, 114, 101, 100, 32, 119, 104, 105, 108, 101, 32,
       97, 110, 97, 108, 121, 122, 105, 110, 103, 32, 116, 104, 101, 32,
       99, 104, 97, 112, 116, 101, 114, 46, 10, 10, 67, 104, 97, 112, 116,
       101, 114, 58, 32>>
    \o chapter_name \o <<10, 69, 114, 114, 111, 114, 58, 32>> \o e

\* wait_time = initial_wait * (2**attempt)
wait_time_linear(n) == initial_wait * (2 * n)

wait_time(n) == initial_wait * (2 ^ n)

\* one iteration of analyze_chapter's loop, with attempt = n, on the
\* service's reply: a return, or a sleep and another iteration
analyze_iteration(reply, chapter_name, n) ==
    IF reply.raises = "none"
    THEN [kind |-> "return", fault |-> "none", value |-> reply.text]
    ELSE IF reply.raises = "RateLimitError"
    THEN IF n < max_retries - 1
         THEN [kind |-> "retry", fault |-> reply.raises, value |-> <<>>]
         ELSE [kind |-> "return", fault |-> reply.raises,
               value |-> RateLimitPlaceholder(chapter_name)]
    ELSE [kind |-> "return", fault |-> reply.raises,
          value |-> UnexpectedPlaceholder(chapter_name, reply.text)]

\* answer_question on the service's reply:
\* f"Error: An error occurred while answering the question. Error: {str(e)}"
answer_question(reply) ==
    IF reply.raises = "none" THEN reply.text
    ELSE
         <<69, 114, 114, 111, 114, 58, 32, 65, 110, 32, 101, 114, 114, 111,
           114, 32, 111, 99, 99, 117, 114, 114, 101, 100, 32, 119, 104,
           105, 108, 101, 32, 97, 110, 115, 119, 101, 114, 105, 110, 103,
           32, 116, 104, 101, 32, 113, 117, 101, 115, 116, 105, 111, 110,
           46, 32, 69, 114, 114, 111, 114, 58, 32>>
         \o reply.text

\* text[-n:] for n > 0
py_tail(text, n) == SubSeq(text, Max(1, Len(text) - n + 1), Len(text))

\* text.replace(" ", "_")
spaces_to_underscores(text) ==
    [k \in 1..Len(text) |-> IF text[k] = 32 THEN 95 ELSE text[k]]

\* text.lower() == "q": str.lower() never shortens a text, and of the single
\* characters it maps "q" and "Q", and no other, to "q"
lower_is_q(text) == Len(text) = 1 /\ lower(text[1]) = 113

\* the bytes of text in UTF-8, the encoding of file names
\* (one byte for a character, and one more for each of the bounds 128, 2048
\* and 65536 that it reaches)
utf8_len(text) ==
    Len(text)
    + Cardinality({k \in 1..Len(text) : text[k] >= 128})
    + Cardinality({k \in 1..Len(text) : text[k] >= 2048})
    + Cardinality({k \in 1..Len(text) : text[k] >= 65536})

\* the longest file name of the file system, in bytes (NAME_MAX)
NameMax == 255

\* the bytes a path given to the system takes at most, the closing null
\* byte counted (PATH_MAX)
PathMax == 4096

\* the part of a path before its first "/"
first_component(path) ==
    IF \E k \in 1..Len(path) : path[k] = 47
    THEN SubSeq(path, 1, (CHOOSE k \in 1..Len(path) :
                             /\ path[k] = 47
                             /\ \A j \in 1..(k - 1) : path[j] # 47) - 1)
    ELSE path

\* what the path of a directory may lead to
DirectoryKinds == {"directory", "missing", "file"}

\* the exception of open(os.path.join(directory, file_name), "w"), where
\* directory is an absolute path that leads to an empty directory, to
\* nothing or to a file, and file_name does not begin with "/": a null
\* character is refused; then a path too long for the system; then the
\* directory has to be one; then a first component longer than a file name
\* may be is refused; and a file_name with "/" is a path into a directory
\* that does not exist
open_error(directory, kind, file_name) ==
    IF \E k \in 1..Len(file_name) : file_name[k] = 0 THEN "ValueError"
    ELSE IF utf8_len(directory) + 1 + utf8_len(file_name) >= PathMax
    THEN "OSError"
    ELSE IF kind = "missing" THEN "FileNotFoundError"
    ELSE IF kind = "file" THEN "NotADirectoryError"
    ELSE IF utf8_len(first_component(file_name)) > NameMax THEN "OSError"
    ELSE IF \E k \in 1..Len(file_name) : file_name[k] = 47
    THEN "FileNotFoundError"
    ELSE "none"

\* the characters of [<>:"/\\|?*]
UnsafeChars == {60, 62, 58, 34, 47, 92, 124, 63, 42}

\* get_safe_filename
get_safe_filename(filename) ==
    LET kept == SelectSeq(filename, LAMBDA c : c \notin UnsafeChars)
        safe_filename == spaces_to_underscores(kept)
    IN py_slice(safe_filename, 0, 200)

\* f"{safe_book_title}-ai-review.md"
review_file_name(title) ==
    get_safe_filename(title) \o <<45, 97, 105, 45, 114, 101, 118, 105, 101, 119, 46, 109, 100>>

---------------------------------------------------------------------------
(* Books, responses of the service to extract_toc, and user inputs *)

\* "Intro", "Middle", "Ghost"
Intro == <<73, 110, 116, 114, 111>>
Middle == <<77, 105, 100, 100, 108, 101>>
Ghost == <<71, 104, 111, 115, 116>>
\* "a/b", a title with a path separator
Slash == <<97, 47, 98>>
\* a title with a null character
Nul == <<97, 0, 98>>
\* a title longer than a file name may be, and the title one character
\* shorter, which with "0022_" and ".txt" is the longest name
LongTitle == text_of_length(NameMax - 8)
FitTitle == text_of_length(NameMax - 9)
\* a title of components of 200 characters "a" between "/", too long for a
\* path
PathTitle == [k \in 1..PathMax |-> IF k % 201 = 0 THEN 47 ELSE 97]

\* "CONTENTS", "1. Intro", "2. Middle", "body", "the Intro was"
LineContents == <<67, 79, 78, 84, 69, 78, 84, 83>>
LineIntro == <<49, 46, 32>> \o Intro
LineMiddle == <<50, 46, 32>> \o Middle
LineBody == <<98, 111, 100, 121>>
LineProse == <<116, 104, 101, 32>> \o Intro \o <<32, 119, 97, 115>>
\* "A/B" after an Arabic-Indic digit three, a full stop and an em space
LineSlash == <<1635, 46, 8195, 65, 47, 66>>
\* "MIDDLE" after a line tabulation
LineTab == <<11, 77, 73, 68, 68, 76, 69>>

Scenario1Book ==
    str_join(<<LineContents, LineIntro, LineBody, LineBody, LineMiddle, LineBody>>)

\* two headings 21 lines apart
LongBook ==
    str_join(<<LineIntro>> \o [k \in 1..20 |-> LineBody] \o <<LineTab, LineBody>>)

\* a heading on line 1, printed again as a running header, and in prose
HeaderBook ==
    str_join(<<<<73, 78, 84, 82, 79>>, LineBody, Intro, LineProse, <<>>>>)

\* a second heading with a path separator in it
SlashBook ==
    str_join(<<Intro>> \o [k \in 1..20 |-> LineBody] \o <<LineSlash, LineBody>>)

\* headings that make no file name
NameBook ==
    str_join(<<Nul>> \o [k \in 1..20 |-> LineBody] \o <<LongTitle>>
             \o [k \in 1..20 |-> LineBody] \o <<PathTitle, LineBody>>)

Books == {Scenario1Book, LongBook, HeaderBook, SlashBook, NameBook}

Responses ==
    { str_join(<<Intro, Middle>>),
      <<>>,
      <<32, 10, 160, 10, 9>>,
      <<8195>> \o Intro \o <<32, 10, 10>> \o Middle \o <<133, 10>>,
      Ghost,
      str_join(<<Intro, Slash>>),
      Nul,
      LongTitle,
      FitTitle,
      PathTitle }

\* names of book files without ".txt": "A: b?", and one of two-byte
\* characters that with ".txt" is a file name of NameMax - 1 bytes
BookTitles == { <<65, 58, 32, 98, 63>>,
                [k \in 1..((NameMax - 5) \div 2) |-> 233] }

\* os.path.expanduser("~/Desktop"): "/root/Desktop"
DesktopPath == <<47, 114, 111, 111, 116, 47, 68, 101, 115, 107, 116, 111, 112>>

\* directories tempfile.mkdtemp() makes: "/tmp/tmpabcdefgh"
TempDirs == { <<47, 116, 109, 112, 47, 116, 109, 112, 97, 98, 99, 100, 101, 102, 103, 104>> }

\* "q", " Q " between an em space and a no-break space, "", " ", "why?"
UserInputs == { <<113>>, <<8195, 81, 160>>, <<>>, <<32>>, <<119, 104, 121, 63>> }

\* the exceptions of the service
ServiceFaults == {"RateLimitError", "Exception"}

\* what a call of completion() does: it returns a text, or raises an
\* exception e with str(e) = text
ServiceReplies ==
    { [raises |-> "none", text |-> t] : t \in ServiceTexts }
    \cup { [raises |-> f, text |-> ExceptionText] : f \in ServiceFaults }

\* what it does for a question of the user: the short text, or an exception
QuestionReplies ==
    { r \in ServiceReplies : r.raises # "none" \/ r.text = Summary }

---------------------------------------------------------------------------
(* main *)

Init ==
    /\ pc = "extract_toc"
    /\ book_title \in BookTitles
    /\ book_content \in Books
    /\ temp_dir = <<>>
    /\ chapters = <<>>
    /\ occurrences = <<>>
    /\ max_gap = DefaultMaxGap
    /\ min_gap = DefaultMinGap
    /\ merged_occurrences = <<>>
    /\ remerged_occurrences = <<>>
    /\ filtered_occurrences = <<>>
    /\ chapter_content = <<>>
    /\ calls = <<>>
    /\ i = 0
    /\ attempt = 0
    /\ requests = 0
    /\ waits = <<>>
    /\ analysis = <<>>
    /\ scratchpad = <<>>
    /\ analysis_file = <<>>
    /\ questions = 0
    /\ outcome = "running"
    /\ response_text = <<>>
    /\ chapter_files = <<>>
    /\ analysed = <<>>

\* chapters = extract_toc(...); if not chapters: ... return
ExtractToc ==
    /\ pc = "extract_toc"
    /\ \E r \in Responses :
         /\ response_text' = r
         /\ chapters' = extract_toc(r)
    /\ calls' = Append(calls, "extract_toc")
    /\ IF chapters' = <<>>
       THEN pc' = "done" /\ outcome' = "no_toc"
       ELSE pc' = "find_chapter_occurrences" /\ outcome' = outcome
    /\ UNCHANGED <<book_title, book_content, temp_dir, occurrences, max_gap,
                   min_gap, merged_occurrences, remerged_occurrences,
                   filtered_occurrences, chapter_content, i, attempt,
                   requests, waits, analysis, scratchpad, analysis_file,
                   questions, chapter_files, analysed>>

\* completion() raises inside extract_toc: nothing catches it
ExtractTocRaises ==
    /\ pc = "extract_toc"
    /\ \E fault \in ServiceFaults :
         outcome' = fault
    /\ calls' = Append(calls, "extract_toc")
    /\ pc' = "done"
    /\ UNCHANGED <<book_title, book_content, temp_dir, chapters, occurrences,
                   max_gap, min_gap, merged_occurrences, remerged_occurrences,
                   filtered_occurrences, chapter_content, i, attempt,
                   requests, waits, analysis, scratchpad, analysis_file,
                   questions, response_text, chapter_files, analysed>>

FindChapterOccurrences ==
    /\ pc = "find_chapter_occurrences"
    /\ occurrences' = find_chapter_occurrences(book_content, chapters)
    /\ calls' = Append(calls, "find_chapter_occurrences")
    /\ pc' = "merge_nearby_occurrences"
    /\ UNCHANGED <<book_title, book_content, temp_dir, chapters, max_gap,
                   min_gap, merged_occurrences, remerged_occurrences,
                   filtered_occurrences, chapter_content, i, attempt,
                   requests, waits, analysis, scratchpad, analysis_file,
                   questions, outcome, response_text, chapter_files,
                   analysed>>

MergeNearbyOccurrences ==
    /\ pc = "merge_nearby_occurrences"
    /\ merged_occurrences' = merge_nearby_occurrences(occurrences, max_gap)
    /\ calls' = Append(calls, "merge_nearby_occurrences")
    /\ pc' = "filter_occurrences"
    /\ UNCHANGED <<book_title, book_content, temp_dir, chapters, occurrences,
                   max_gap, min_gap, remerged_occurrences,
                   filtered_occurrences, chapter_content, i, attempt,
                   requests, waits, analysis, scratchpad, analysis_file,
                   questions, outcome, response_text, chapter_files,
                   analysed>>

FilterOccurrences ==
    /\ pc = "filter_occurrences"
    /\ filtered_occurrences' = filter_occurrences(merged_occurrences, min_gap)
    /\ calls' = Append(calls, "filter_occurrences")
    /\ pc' = "split_book_into_chapters"
    /\ UNCHANGED <<book_title, book_content, temp_dir, chapters, occurrences,
                   max_gap, min_gap, merged_occurrences, remerged_occurrences,
                   chapter_content, i, attempt, requests, waits, analysis,
                   scratchpad, analysis_file, questions, outcome,
                   response_text, chapter_files, analysed>>

\* chapter_content = split_book_into_chapters(...): an exception ends the run
SplitBookIntoChapters ==
    /\ pc = "split_book_into_chapters"
    /\ LET r == split_book_into_chapters(book_content, filtered_occurrences)
       IN IF r.raised = "none"
          THEN /\ chapter_content' = r.value
               /\ pc' = "open_analysis_file"
               /\ outcome' = outcome
          ELSE /\ chapter_content' = chapter_content
               /\ pc' = "done"
               /\ outcome' = r.raised
    /\ calls' = Append(calls, "split_book_into_chapters")
    /\ UNCHANGED <<book_title, book_content, temp_dir, chapters, occurrences,
                   max_gap, min_gap, merged_occurrences, remerged_occurrences,
                   filtered_occurrences, i, attempt, requests, waits, analysis,
                   scratchpad, analysis_file, questions, response_text,
                   chapter_files, analysed>>

\* analysis_file.write(f"# AI Review: {book_title}\n\n")
title_entry(title) ==
    <<35, 32, 65, 73, 32, 82, 101, 118, 105, 101, 119, 58, 32>>
    \o title \o <<10, 10>>

\* temp_dir = tempfile.mkdtemp(), and the review file on the desktop is opened
\* and given its title: the system has a directory for temporary files or
\* mkdtemp raises, the desktop is a directory or open raises, and an
\* exception ends the run
OpenAnalysisFile ==
    /\ pc = "open_analysis_file"
    /\ \E usable \in BOOLEAN, made \in TempDirs, desktop \in DirectoryKinds :
         LET e == IF usable
                  THEN open_error(DesktopPath, desktop, review_file_name(book_title))
                  ELSE "FileNotFoundError"
         IN /\ temp_dir' = IF usable THEN made ELSE temp_dir
            /\ IF e = "none"
               THEN /\ analysis_file' = <<title_entry(book_title)>>
                    /\ i' = 1
                    /\ pc' = "for_chapter"
                    /\ outcome' = outcome
               ELSE /\ analysis_file' = analysis_file
                    /\ i' = i
                    /\ pc' = "done"
                    /\ outcome' = e
    /\ UNCHANGED <<book_title, book_content, chapters, occurrences, max_gap,
                   min_gap, merged_occurrences, remerged_occurrences,
                   filtered_occurrences, chapter_content, calls, attempt,
                   requests, waits, analysis, scratchpad, questions,
                   response_text, chapter_files, analysed>>

\* the head of the for loop: the next item's file is written and
\* analyze_chapter is entered, or the file cannot be opened and the
\* exception ends the run, or the loop is over
ForChapter ==
    /\ pc = "for_chapter"
    /\ IF i <= Len(chapter_content)
       THEN LET file_name == spaces_to_underscores(chapter_content[i][1])
                                 \o <<46, 116, 120, 116>>
                e == open_error(temp_dir, "directory", file_name)
            IN IF e = "none"
               THEN /\ chapter_files' =
                         dict_set(chapter_files, file_name, chapter_content[i][2])
                    /\ pc' = "analyze_chapter"
                    /\ outcome' = outcome
               ELSE /\ chapter_files' = chapter_files
                    /\ pc' = "done"
                    /\ outcome' = e
       ELSE /\ chapter_files' = chapter_files
            /\ pc' = "done"
            /\ outcome' = "complete"
    /\ attempt' = 0
    /\ requests' = 0
    /\ waits' = <<>>
    /\ UNCHANGED <<book_title, book_content, temp_dir, chapters, occurrences,
                   max_gap, min_gap, merged_occurrences, remerged_occurrences,
                   filtered_occurrences, chapter_content, calls, i, analysis,
                   scratchpad, analysis_file, questions, response_text,
                   analysed>>

\* analysis_file.write(f"\n\n{analysis}\n\n---\n")
analysis_entry(text) ==
    <<10, 10>> \o text \o <<10, 10, 45, 45, 45, 10>>

\* one iteration of analyze_chapter's loop; when it returns, main writes the
\* analysis to the review file and goes on to the prompt
AnalyzeChapter ==
    /\ pc = "analyze_chapter"
    /\ attempt < max_retries
    /\ \E reply \in ServiceReplies :
         LET r == analyze_iteration(reply, chapter_content[i][1], attempt)
         IN /\ requests' = requests + 1
            /\ IF r.kind = "retry"
               THEN /\ waits' = Append(waits, wait_time(attempt))
                    /\ attempt' = attempt + 1
                    /\ UNCHANGED <<pc, analysis, analysis_file, analysed,
                                   questions, outcome>>
               ELSE /\ analysis' = r.value
                    /\ analysis_file' = Append(analysis_file, analysis_entry(r.value))
                    /\ analysed' = Append(analysed,
                           [chapter |-> chapter_content[i][1], fault |-> r.fault,
                            analysis |-> r.value])
                    /\ questions' = 0
                    /\ pc' = "prompt"
                    /\ UNCHANGED <<waits, attempt, outcome>>
    /\ UNCHANGED <<book_title, book_content, temp_dir, chapters, occurrences,
                   max_gap, min_gap, merged_occurrences, remerged_occurrences,
                   filtered_occurrences, chapter_content, calls, i,
                   scratchpad, response_text, chapter_files>>

\* analysis_file.write(f"\n\n## User Question\n\n{user_input}\n\n## Answer\n\n{answer}\n\n---\n")
question_entry(user_input, answer) ==
    <<10, 10, 35, 35, 32, 85, 115, 101, 114, 32, 81, 117, 101, 115, 116, 105, 111, 110, 10, 10>>
    \o user_input \o <<10, 10, 35, 35, 32, 65, 110, 115, 119, 101, 114, 10, 10>>
    \o answer \o <<10, 10, 45, 45, 45, 10>>

\* one round of the while loop: quit, go on to the next chapter, or a question
Prompt ==
    /\ pc = "prompt"
    /\ \E typed \in UserInputs :
         LET user_input == str_strip(typed)
         IN IF lower_is_q(user_input)
            THEN /\ pc' = "done"
                 /\ outcome' = "quit"
                 /\ UNCHANGED <<i, scratchpad, analysis_file, questions>>
            ELSE IF user_input = <<>>
            THEN /\ scratchpad' = py_tail(analysis, 1000)
                 /\ i' = i + 1
                 /\ pc' = "for_chapter"
                 /\ UNCHANGED <<outcome, analysis_file, questions>>
            ELSE /\ questions < MaxQuestions
                 /\ \E reply \in QuestionReplies :
                      analysis_file' = Append(analysis_file,
                          question_entry(user_input, answer_question(reply)))
                 /\ questions' = questions + 1
                 /\ UNCHANGED <<pc, outcome, i, scratchpad>>
    /\ UNCHANGED <<book_title, book_content, temp_dir, chapters, occurrences,
                   max_gap, min_gap, merged_occurrences, remerged_occurrences,
                   filtered_occurrences, chapter_content, calls, attempt,
                   requests, waits, analysis, response_text, chapter_files,
                   analysed>>

Next ==
    \/ ExtractToc
    \/ ExtractTocRaises
    \/ FindChapterOccurrences
    \/ MergeNearbyOccurrences
    \/ FilterOccurrences
    \/ SplitBookIntoChapters
    \/ OpenAnalysisFile
    \/ ForChapter
    \/ AnalyzeChapter
    \/ Prompt

Spec == Init /\ [][Next]_vars

\* the service answers or raises, and time.sleep returns
FairSpec == Spec /\ WF_vars(AnalyzeChapter)

---------------------------------------------------------------------------
(* The reconciliation passes, and the materializer on their result, applied *)
(* to occurrence lists and gap parameters drawn from bounded sets           *)

TestTitles == { <<65>>, <<66>> }
Occurrences == { <<t, n>> : t \in TestTitles, n \in 1..MaxLine }
OccurrenceLists == UNION { [1..m -> Occurrences] : m \in 0..MaxOcc }

\* the variables of main that a function under test does not use
NotInMain ==
    /\ book_title = <<>>
    /\ temp_dir = <<>>
    /\ chapters = <<>>
    /\ calls = <<>>
    /\ i = 0
    /\ attempt = 0
    /\ requests = 0
    /\ waits = <<>>
    /\ analysis = <<>>
    /\ scratchpad = <<>>
    /\ analysis_file = <<>>
    /\ questions = 0
    /\ outcome = "running"
    /\ response_text = <<>>
    /\ chapter_files = <<>>
    /\ analysed = <<>>

InitRec ==
    /\ pc \in {"merge_input", "filter_input"}
    /\ book_content = Scenario1Book
    /\ occurrences \in OccurrenceLists
    /\ max_gap \in 0..MaxGap
    /\ min_gap \in 0..MaxGap
    /\ merged_occurrences = <<>>
    /\ remerged_occurrences = <<>>
    /\ filtered_occurrences = <<>>
    /\ chapter_content = <<>>
    /\ NotInMain

\* merged_occurrences = merge_nearby_occurrences(occurrences, max_gap)
MergeOnce ==
    /\ pc = "merge_input"
    /\ merged_occurrences' = merge_nearby_occurrences(occurrences, max_gap)
    /\ pc' = "merged"
    /\ UNCHANGED <<book_title, book_content, temp_dir, chapters, occurrences,
                   max_gap, min_gap, remerged_occurrences,
                   filtered_occurrences, chapter_content, calls, i, attempt,
                   requests, waits, analysis, scratchpad, analysis_file,
                   questions, outcome, response_text, chapter_files,
                   analysed>>

\* the merge pass on its own result, with the same window
MergeAgain ==
    /\ pc = "merged"
    /\ remerged_occurrences' = merge_nearby_occurrences(merged_occurrences, max_gap)
    /\ pc' = "remerged"
    /\ UNCHANGED <<book_title, book_content, temp_dir, chapters, occurrences,
                   max_gap, min_gap, merged_occurrences, filtered_occurrences,
                   chapter_content, calls, i, attempt, requests, waits,
                   analysis, scratchpad, analysis_file, questions, outcome,
                   response_text, chapter_files, analysed>>

\* filtered_occurrences = filter_occurrences(merged_occurrences, min_gap)
FilterMerged ==
    /\ pc = "remerged"
    /\ filtered_occurrences' = filter_occurrences(merged_occurrences, min_gap)
    /\ pc' = "reconciled"
    /\ UNCHANGED <<book_title, book_content, temp_dir, chapters, occurrences,
                   max_gap, min_gap, merged_occurrences, remerged_occurrences,
                   chapter_content, calls, i, attempt, requests, waits,
                   analysis, scratchpad, analysis_file, questions, outcome,
                   response_text, chapter_files, analysed>>

\* the filter pass on the list drawn
FilterOnce ==
    /\ pc = "filter_input"
    /\ filtered_occurrences' = filter_occurrences(occurrences, min_gap)
    /\ pc' = "filtered"
    /\ UNCHANGED <<book_title, book_content, temp_dir, chapters, occurrences,
                   max_gap, min_gap, merged_occurrences, remerged_occurrences,
                   chapter_content, calls, i, attempt, requests, waits,
                   analysis, scratchpad, analysis_file, questions, outcome,
                   response_text, chapter_files, analysed>>

\* chapter_content = split_book_into_chapters(book_content, filtered_occurrences)
SplitStarts ==
    /\ pc \in {"filtered", "split_input"}
    /\ LET r == split_book_into_chapters(book_content, filtered_occurrences)
       IN /\ chapter_content' = r.value
          /\ outcome' = IF r.raised = "none" THEN "returned" ELSE r.raised
    /\ pc' = "split_done"
    /\ UNCHANGED <<book_title, book_content, temp_dir, chapters, occurrences,
                   max_gap, min_gap, merged_occurrences, remerged_occurrences,
                   filtered_occurrences, calls, i, attempt, requests, waits,
                   analysis, scratchpad, analysis_file, questions,
                   response_text, chapter_files, analysed>>

NextRec ==
    \/ MergeOnce
    \/ MergeAgain
    \/ FilterMerged
    \/ FilterOnce
    \/ SplitStarts

SpecRec == InitRec /\ [][NextRec]_vars

(* The materializer applied to books and start lists drawn from bounded sets *)

InitSplit ==
    /\ pc = "split_input"
    /\ book_content \in Books
    /\ filtered_occurrences \in OccurrenceLists
    /\ occurrences = <<>>
    /\ max_gap = DefaultMaxGap
    /\ min_gap = DefaultMinGap
    /\ merged_occurrences = <<>>
    /\ remerged_occurrences = <<>>
    /\ chapter_content = <<>>
    /\ NotInMain

NextSplit == SplitStarts

SpecSplit == InitSplit /\ [][NextSplit]_vars

---------------------------------------------------------------------------
(* Notions the properties are stated with *)

\* line numbers never decrease along occ
Ascending(occ) == \A k \in 1..(Len(occ) - 1) : occ[k][2] <= occ[k + 1][2]

\* line numbers increase strictly along occ
StrictlyAscending(occ) == \A k \in 1..(Len(occ) - 1) : occ[k][2] < occ[k + 1][2]

\* a is b with some elements left out
RECURSIVE IsSubsequence(_, _)
IsSubsequence(a, b) ==
    IF a = <<>> THEN TRUE
    ELSE IF b = <<>> THEN FALSE
    ELSE IF Head(a) = Head(b) THEN IsSubsequence(Tail(a), Tail(b))
    ELSE IsSubsequence(a, Tail(b))

\* the text of lines from..to (1-indexed, both included), as a range holds it
OwnedText(lines, from, to) == str_strip(str_join(SubSeq(lines, from, to)))

HasKey(d, key) == \E k \in 1..Len(d) : d[k][1] = key

\* d[key], for a key of d
dict_get(d, key) == d[CHOOSE k \in 1..Len(d) : d[k][1] = key][2]

\* the filter that compares with the last occurrence it kept
RECURSIVE ReferenceFilterLoop(_, _, _)
ReferenceFilterLoop(rest, gap, kept) ==
    IF rest = <<>> THEN kept
    ELSE ReferenceFilterLoop(Tail(rest), gap,
             IF kept = <<>> \/ Head(rest)[2] - kept[Len(kept)][2] >= gap
             THEN Append(kept, Head(rest)) ELSE kept)

ReferenceFilter(occ, gap) == ReferenceFilterLoop(occ, gap, <<>>)

\* every character of text is white space: text has only blank lines
OnlyBlankLines(text) == \A k \in 1..Len(text) : text[k] \in Whitespace

Called(f) == \E k \in 1..Len(calls) : calls[k] = f

---------------------------------------------------------------------------
(* C1 *)

\* a non-empty start list, strictly ascending, of lines of the book
ValidStarts(lines, starts) ==
    /\ starts # <<>>
    /\ StrictlyAscending(starts)
    /\ \A k \in 1..Len(starts) : starts[k][2] \in 1..Len(lines)

\* C1: for a non-empty, strictly ascending list of starts that are lines of
\* the book, the ranges of split_book_into_chapters partition the book: the
\* range of start n holds lines start_n .. start_(n+1) - 1, the last one
\* start_n .. the last line, and the preface lines 1 .. start_1 - 1.
C1_RangesPartitionBook ==
    (pc = "split_done" /\ ValidStarts(str_split(book_content), filtered_occurrences))
    => LET lines == str_split(book_content)
           S == filtered_occurrences
       IN /\ outcome = "returned"
          /\ Len(chapter_content) = Len(S) + (IF S[1][2] > 1 THEN 1 ELSE 0)
          /\ S[1][2] > 1 =>
                /\ HasKey(chapter_content, Preface)
                /\ dict_get(chapter_content, Preface) = OwnedText(lines, 1, S[1][2] - 1)
          /\ \A n \in 1..Len(S) :
                /\ HasKey(chapter_content, chapter_key(S[n][1], S[n][2]))
                /\ dict_get(chapter_content, chapter_key(S[n][1], S[n][2]))
                      = OwnedText(lines, S[n][2],
                                  IF n < Len(S) THEN S[n + 1][2] - 1 ELSE Len(lines))

(* C2 *)

\* C2: on an ascending list, filter_occurrences keeps an occurrence unless
\* its line is less than min_gap after the line of the previous kept
\* occurrence: its result is that of the filter that compares with the
\* last kept occurrence.
C2_FilterComparesWithLastKept ==
    (pc = "filtered" /\ Ascending(occurrences))
    => filtered_occurrences = ReferenceFilter(occurrences, min_gap)

(* C3 *)

\* C3: with a non-empty list of titles and no occurrence found, the merge
\* and the filter pass yield the empty list, split_book_into_chapters is
\* not invoked, and the run does not end in the error of indexing an empty
\* start list.
C3_NoOccurrencesNeverSplit ==
    (chapters # <<>> /\ Called("find_chapter_occurrences") /\ occurrences = <<>>)
    => /\ merged_occurrences = <<>>
       /\ filtered_occurrences = <<>>
       /\ ~Called("split_book_into_chapters")
       /\ outcome # "IndexError"
       /\ chapter_content = <<>>

(* C4 *)

Scenario1Run ==
    /\ book_content = Scenario1Book
    /\ chapters = <<Intro, Middle>>
    /\ Called("split_book_into_chapters")

\* C4 as stated: in scenario 1 the scanner yields (Intro,2),(Middle,5), the
\* merge and the filter pass with their defaults leave that list unchanged,
\* and the keys are 0000_Preface, 0002_Intro, 0005_Middle with
\* Preface = line 1, Intro = lines 2-4, Middle = lines 5-6.
C4_Scenario1AsStated ==
    Scenario1Run
    => LET lines == str_split(book_content)
           found == << <<Intro, 2>>, <<Middle, 5>> >>
       IN /\ occurrences = found
          /\ max_gap = DefaultMaxGap /\ merged_occurrences = found
          /\ min_gap = DefaultMinGap /\ filtered_occurrences = found
          /\ chapter_content =
               << <<Preface, OwnedText(lines, 1, 1)>>,
                  <<<<48, 48, 48, 50, 95>> \o Intro, OwnedText(lines, 2, 4)>>,
                  <<<<48, 48, 48, 53, 95>> \o Middle, OwnedText(lines, 5, 6)>> >>

\* C4 amended: in scenario 1 the scanner yields (Intro,2),(Middle,5), the
\* merge pass (window 10) leaves that list unchanged, the filter pass
\* (minimum gap 20) drops (Middle,5), which is 3 < 20 lines after (Intro,2),
\* and the keys are 0000_Preface, 0002_Intro with Preface = line 1 and
\* Intro = lines 2-6.
C4_Scenario1AsCoded ==
    Scenario1Run
    => LET lines == str_split(book_content)
           found == << <<Intro, 2>>, <<Middle, 5>> >>
       IN /\ occurrences = found
          /\ max_gap = DefaultMaxGap /\ merged_occurrences = found
          /\ min_gap = DefaultMinGap /\ filtered_occurrences = << <<Intro, 2>> >>
          /\ chapter_content =
               << <<Preface, OwnedText(lines, 1, 1)>>,
                  <<<<48, 48, 48, 50, 95>> \o Intro, OwnedText(lines, 2, 6)>> >>

\* scenario 1 has been split
C4_Witness ==
    /\ Scenario1Run
    /\ pc = "for_chapter"
    /\ Len(chapter_content) = 2

(* C5 *)

\* C5: the merge pass applied to its own result, with the same window,
\* returns that result.
C5_MergeIdempotent ==
    pc \in {"remerged", "reconciled"} => remerged_occurrences = merged_occurrences

\* a list out of document order has been merged twice, the first pass
\* dropping an occurrence and keeping two
C5_Witness ==
    /\ pc = "remerged"
    /\ ~Ascending(occurrences)
    /\ Len(merged_occurrences) = 2
    /\ Len(occurrences) = 3
    /\ merged_occurrences[1][1] = merged_occurrences[2][1]

(* C6 *)

\* C6: the result of merge_nearby_occurrences and the result of
\* filter_occurrences is a subsequence of its input, not longer than it, and
\* ascending when the input is; so is the result of the two in sequence.
C6_PassesKeepOrderAddNothing ==
    /\ pc \in {"merged", "remerged", "reconciled"} =>
          /\ IsSubsequence(merged_occurrences, occurrences)
          /\ Len(merged_occurrences) <= Len(occurrences)
          /\ Ascending(occurrences) => Ascending(merged_occurrences)
    /\ pc \in {"filtered", "split_done"} =>
          /\ IsSubsequence(filtered_occurrences, occurrences)
          /\ Len(filtered_occurrences) <= Len(occurrences)
          /\ Ascending(occurrences) => Ascending(filtered_occurrences)
    /\ pc = "reconciled" =>
          /\ IsSubsequence(filtered_occurrences, merged_occurrences)
          /\ Len(filtered_occurrences) <= Len(merged_occurrences)
          /\ IsSubsequence(filtered_occurrences, occurrences)
          /\ Ascending(occurrences) => Ascending(filtered_occurrences)

\* both passes dropped an occurrence of an ascending list and two are left
C6_Witness ==
    /\ pc = "reconciled"
    /\ Ascending(occurrences)
    /\ Len(occurrences) = MaxOcc
    /\ Len(merged_occurrences) < Len(occurrences)
    /\ Len(filtered_occurrences) < Len(merged_occurrences)
    /\ filtered_occurrences # <<>>

(* C7 *)

\* the analysis of a chapter has ended in a fault of the service
FaultRecorded == \E k \in 1..Len(analysed) : analysed[k].fault # "none"

\* what analyze_chapter returned is what main recorded: the chapters are
\* analysed in the order of the dict, a fault of the service gives the
\* placeholder text, and main writes the text to the review file
AnalysesRecorded ==
    /\ Len(analysed) <= Len(chapter_content)
    /\ \A k \in 1..Len(analysed) :
          /\ analysed[k].chapter = chapter_content[k][1]
          /\ analysed[k].fault = "RateLimitError" =>
                analysed[k].analysis = RateLimitPlaceholder(chapter_content[k][1])
          /\ analysed[k].fault = "Exception" =>
                analysed[k].analysis =
                    UnexpectedPlaceholder(chapter_content[k][1], ExceptionText)
          /\ \E w \in 1..Len(analysis_file) :
                analysis_file[w] = analysis_entry(analysed[k].analysis)
    /\ pc = "prompt" => Len(analysed) = i /\ analysis = analysed[i].analysis
    /\ pc = "analyze_chapter" => Len(analysed) = i - 1
    /\ outcome \notin ServiceFaults \/ analysed = <<>>

\* C7: a fault of the service in a chapter's analysis (rate limiting after
\* the retries, or any other fault) does not leave analyze_chapter as an
\* exception: the placeholder text is what analyze_chapter returns and what
\* main records, and after it main goes on to analyse every later chapter,
\* in the order of the dict, unless the user quits.
C7_AnalysisFaultsIsolated ==
    /\ AnalysesRecorded
    /\ (FaultRecorded /\ pc = "done") =>
          \/ outcome = "quit"
          \/ outcome = "complete" /\ Len(analysed) = Len(chapter_content)

(* C8 *)

C8_RetryInvariant ==
    /\ requests <= max_retries
    /\ waits = [k \in 1..Len(waits) |-> initial_wait * (2 ^ (k - 1))]
    /\ pc = "analyze_chapter" =>
          /\ attempt <= max_retries - 1
          /\ requests = attempt
          /\ Len(waits) = attempt
    /\ pc = "prompt" =>
          /\ requests = Len(waits) + 1
          /\ analysed[Len(analysed)].fault = "RateLimitError" =>
                /\ requests = max_retries
                /\ Len(waits) = max_retries - 1
                /\ analysis = RateLimitPlaceholder(chapter_content[i][1])

\* C8: one call of analyze_chapter makes at most max_retries requests; the
\* wait after the k-th consecutive rate-limit failure (k from 0) is
\* initial_wait * 2^k; every request but the last was such a failure; after
\* the max_retries-th failure it returns the rate-limit placeholder with no
\* further wait; and the call ends.
C8_BoundedBackoff ==
    /\ []C8_RetryInvariant
    /\ (pc = "analyze_chapter") ~> (pc # "analyze_chapter")

\* a call has returned the rate-limit placeholder after max_retries requests
C8_Witness ==
    /\ pc = "prompt"
    /\ analysed[Len(analysed)].fault = "RateLimitError"
    /\ requests = max_retries
    /\ waits = <<1, 2, 4, 8>>

(* C9 *)

\* C9: when the response to extract_toc has only blank lines (the service
\* found no table of contents), extract_toc returns the empty list and main
\* ends the run: no scanner, reconciler or materializer call, no chapter
\* range, no analysis.
C9_NoTocIsTerminal ==
    (calls # <<>> /\ outcome \notin ServiceFaults /\ OnlyBlankLines(response_text))
    => /\ chapters = <<>>
       /\ pc = "done"
       /\ outcome = "no_toc"
       /\ calls = <<"extract_toc">>
       /\ occurrences = <<>>
       /\ filtered_occurrences = <<>>
       /\ chapter_content = <<>>
       /\ chapter_files = <<>>
       /\ analysed = <<>>
       /\ analysis_file = <<>>

\* the run has ended on a response of blank lines
C9_Witness ==
    /\ pc = "done"
    /\ outcome = "no_toc"
    /\ Len(response_text) > 1
    /\ OnlyBlankLines(response_text)

(* C10 *)

\* the keys split_book_into_chapters builds for starts, the preface's first
BuiltKeys(starts) ==
    (IF starts[1][2] > 1 THEN <<Preface>> ELSE <<>>)
    \o [k \in 1..Len(starts) |-> chapter_key(starts[k][1], starts[k][2])]

\* C10: for an ascending list and min_gap >= 1, consecutive elements of
\* filter_occurrences' result are at least min_gap lines apart, so their
\* lines increase strictly; the keys split_book_into_chapters builds from
\* them are pairwise distinct, and the dict has one item per start, and one
\* for the preface iff the first start is after line 1.
C10_FilteredStartsGiveDistinctKeys ==
    (pc \in {"filtered", "split_done"} /\ Ascending(occurrences) /\ min_gap >= 1)
    => LET S == filtered_occurrences
       IN /\ \A k \in 1..(Len(S) - 1) : S[k + 1][2] - S[k][2] >= min_gap
          /\ StrictlyAscending(S)
          /\ (pc = "split_done" /\ S # <<>>) =>
                /\ outcome = "returned"
                /\ \A j, k \in 1..Len(BuiltKeys(S)) :
                      j # k => BuiltKeys(S)[j] # BuiltKeys(S)[k]
                /\ dict_keys(chapter_content) = BuiltKeys(S)
                /\ Len(chapter_content) = Len(S) + (IF S[1][2] > 1 THEN 1 ELSE 0)

\* the filter dropped an occurrence, kept two, and the result was split into
\* a preface and two chapters
C10_Witness ==
    /\ pc = "split_done"
    /\ Ascending(occurrences)
    /\ min_gap >= 1
    /\ Len(filtered_occurrences) = 2
    /\ Len(occurrences) = 3
    /\ Len(chapter_content) = 3

===========================================================================
